---- MODULE Spec2Model ----
(***************************************************************************)
(* check_linux_metrics.py: a monitoring plugin.  One invocation runs one   *)
(* probe (cpu, load, threads, files, procs, diskio, disku, memory, swap,   *)
(* network), prints one line and exits with 0 (OK), 1 (WARNING),           *)
(* 2 (CRITICAL) or 3 (UNKNOWN).  An uncaught Python exception ends the     *)
(* interpreter with a traceback and exit code 1.  The delta probes keep a  *)
(* copy of the kernel's counter file under /var/tmp/linux_metrics; the     *)
(* file's modification time is the time of the previous sample.            *)
(*                                                                         *)
(* A behaviour is one host on which the scheduler runs one check           *)
(* definition (one sub-command, one device / interface / mount point)      *)
(* again and again with varying warn/crit arguments, while the kernel      *)
(* counters advance and the wall clock moves (forwards, or backwards when  *)
(* it is adjusted).  Strings the program takes apart (device names, file   *)
(* names) are sequences of one-character strings.  Percentages and rates   *)
(* are exact fractions [n, d] with d > 0 where Python has floats.          *)
(*                                                                         *)
(* Spec takes an invocation as one step.  RaceSpec takes the cpu probe     *)
(* statement by statement, with two invocations that may overlap.  KeySpec *)
(* is a host with two diskio checks whose device names differ in '/'       *)
(* against '_'.                                                            *)
(***************************************************************************)
EXTENDS Integers, Sequences, FiniteSets, TLC

\* Bounds of the model.
\* MaxEvents: how many counter increments the kernel makes in one behaviour.
MaxEvents == 2
\* MaxClock: the wall clock takes the values 0..MaxClock.
MaxClock == 1

\* 1 MB/s in bytes per second: check_net divides by 1024.00 twice.
BytesPerMB == 1048576

VARIABLES command, entity, clock, stat, diskstats, netdev, files, last, inflight

vars == <<command, entity, clock, stat, diskstats, netdev, files, last, inflight>>

----------------------------------------------------------------------------
(* Strings.                                                                *)

Str_slash == <<"/">>
Str_dev_prefix == <<"/", "d", "e", "v", "/">>
Str_sda == <<"s", "d", "a">>
Str_sdb == <<"s", "d", "b">>
Str_da == <<"d", "a">>
Str_sdz == <<"s", "d", "z">>
Str_dev_sda == <<"/", "d", "e", "v", "/", "s", "d", "a">>
Str_tmp == <<"/", "t", "m", "p">>
Str_eth0 == <<"e", "t", "h", "0">>
Str_eth1 == <<"e", "t", "h", "1">>
Str_eth == <<"e", "t", "h">>
Str_root == <<"/">>
Str_proc_stat == <<"p", "r", "o", "c", "_", "s", "t", "a", "t">>
Str_processes == <<"_", "p", "r", "o", "c", "e", "s", "s", "e", "s">>
Str_proc_diskstats == <<"p", "r", "o", "c", "_", "d", "i", "s", "k", "s", "t", "a", "t", "s", "_">>
Str_proc_net_dev == <<"p", "r", "o", "c", "_", "n", "e", "t", "_", "d", "e", "v", "_">>

\* str.startswith(prefix)
StartsWith(s, prefix) ==
    /\ Len(prefix) <= Len(s)
    /\ SubSeq(s, 1, Len(prefix)) = prefix

\* str.endswith(suffix)
EndsWith(s, suffix) ==
    /\ Len(suffix) <= Len(s)
    /\ SubSeq(s, Len(s) - Len(suffix) + 1, Len(s)) = suffix

\* str.replace(a, b) for one-character a and b
Replace(s, a, b) == [i \in 1..Len(s) |-> IF s[i] = a THEN b ELSE s[i]]

\* sum(list)
RECURSIVE SumSeq(_)
SumSeq(s) == IF s = <<>> THEN 0 ELSE Head(s) + SumSeq(Tail(s))

\* max over a finite set of severities; 0 for the empty set
MaxOf(S) == IF S = {} THEN 0 ELSE CHOOSE m \in S : \A x \in S : x <= m

MinOf(S) == CHOOSE m \in S : \A x \in S : m <= x

----------------------------------------------------------------------------
(* Command-line arguments.  One warn or crit argument is the list of the   *)
(* tokens between its commas (str.split(',')); a scalar argument is a list  *)
(* of one token.  A token is an integer literal ("2"), a float literal of  *)
(* integral value ("2.0"), a word that is no number ("x") or empty ("").   *)

I(v) == [k |-> "int", v |-> v]
D(v) == [k |-> "dec", v |-> v]
BadTok == [k |-> "bad", v |-> 0]
EmptyTok == [k |-> "empty", v |-> 0]

\* float(s) succeeds
FloatOk(t) == t.k \in {"int", "dec"}

\* int(s) succeeds: int("2.0") raises ValueError
IntOk(t) == t.k = "int"

\* float(arg) of a whole argument succeeds ("1,2" is no number)
ArgFloatOk(a) == Len(a) = 1 /\ FloatOk(a[1])

\* Fractions.
Frac(n, d) == IF d < 0 THEN [n |-> -n, d |-> -d] ELSE [n |-> n, d |-> d]

\* value >= threshold
\* The strict comparison, which the thresholds are not taken with.
FracGT(x, t) == x.n > t * x.d

FracGE(x, t) == x.n >= t * x.d

----------------------------------------------------------------------------
(* What one invocation did.  exit and out are what the caller sees; the    *)
(* other fields record the path the run took through the code.            *)
(*   out     "status": a status line with performance data;               *)
(*           "first_run": 'This was the first run, ...';                   *)
(*           "plugin_error": 'Plugin Error: ...';                          *)
(*           "no_swap": 'No swap space configured on this system';         *)
(*           "traceback": an uncaught exception; "none": nothing printed.  *)
(*   reads   the kernel sources the run opened;                            *)
(*   isfile  the answer of os.path.isfile(interim_file), if it was asked;  *)
(*   derived whether deltas or rates were computed;                        *)
(*   evals   the threshold comparisons made: sub-metric, value, warn, crit;*)
(*   ann     the severity annotations appended to the status text;         *)
(*   perfdata, perfthr  whether performance data was printed and which of  *)
(*           its items carry ;warn;crit;                                   *)
(*   errs    check_net's PK_ERRORS;  saved: the snapshot was (re)written.  *)

NoneTok == [k |-> "none", v |-> 0]
NoneArr == <<>>

Blank ==
    [cmd |-> "", argv |-> <<>>, os |-> <<>>, exit |-> 0, out |-> "none",
     reads |-> {}, isfile |-> "untested", derived |-> FALSE, evals |-> <<>>,
     ann |-> <<>>, perfdata |-> FALSE, perfthr |-> {}, errs |-> 0,
     saved |-> FALSE]

NoRun == [Blank EXCEPT !.out = "not_run"]

\* print("Plugin Error: ..."); sys.exit(3)
PluginError(reads) == [Blank EXCEPT !.exit = 3, !.out = "plugin_error", !.reads = reads]

\* An exception nobody catches: the interpreter prints the traceback and
\* exits with 1.
Traceback(r) == [r EXCEPT !.exit = 1, !.out = "traceback", !.saved = FALSE]

\* The dispatch falls off the end of the script: nothing printed, exit 0.
FallThrough == Blank

Ann(sev, name) == [sev |-> sev, name |-> name]
Eval(name, x, w, c) == [name |-> name, x |-> x, w |-> w, c |-> c]

\* The scalar threshold ladder every single-value probe repeats:
\*   if value >= crit: 2 / elif value >= warn: 1 / else: 0
ScalarStatus(x, warn, crit) ==
    IF FracGE(x, crit) THEN 2 ELSE IF FracGE(x, warn) THEN 1 ELSE 0

\* A run without thresholds that reports UNKNOWN.
NoThresholdStatusUnknown == 2 + 1

\* "else: status_code = 0" when no thresholds were given
NoThresholdStatus == 0

\* A single-value probe from its status line on: value x of sub-metric name,
\* thresholds as float(warn), float(crit); base is the record of the run so far.
ScalarReport(base, name, x, warn, crit, thrkeys) ==
    IF warn.k # "none" /\ crit.k # "none"
    THEN LET st == ScalarStatus(x, warn.v, crit.v)
         IN [base EXCEPT !.exit = st, !.out = "status",
                         !.evals = <<Eval(name, x, warn.v, crit.v)>>,
                         !.ann = <<Ann(st, "")>>,
                         !.perfdata = TRUE, !.perfthr = thrkeys]
    ELSE [base EXCEPT !.exit = NoThresholdStatus, !.out = "status", !.perfdata = TRUE]

----------------------------------------------------------------------------
(* The snapshot store: /var/tmp/linux_metrics.  files maps the name of     *)
(* each existing file to its modification time and its content, a copy of  *)
(* the kernel file it was made from.                                       *)

\* shutil.copyfile(source, interim_file)
CopyFile(content, name) ==
    [n \in DOMAIN files \cup {name} |->
        IF n = name THEN [mtime |-> clock, content |-> content] ELSE files[n]]

\* float(time.time() - os.path.getmtime(interim_file))
SamplePeriod(name) == clock - files[name].mtime

\* A bootstrap that says so and leaves no snapshot behind.
FirstRunNoCopy(source) ==
    [Blank EXCEPT !.exit = 0, !.out = "first_run", !.isfile = "absent",
                  !.saved = FALSE, !.reads = {source}]

\* The bootstrap every delta probe repeats: copy the source, say so, exit 0.
FirstRun(source) ==
    [Blank EXCEPT !.exit = 0, !.out = "first_run", !.isfile = "absent",
                  !.saved = TRUE, !.reads = {source}]

----------------------------------------------------------------------------
(* The dispatch at the bottom of the script: how the arguments after the   *)
(* probe's own positional argument are taken.                              *)
(*   "none": no thresholds; "pair": accepted warn and crit;                *)
(*   "invalid": 'Plugin Error: Invalid arguments', exit 3;                 *)
(*   "valueerror": float() raised; "silent": no branch matches.            *)

\* cpu, threads, files, disku, memory, swap:
\*   len(args) == 0 / elif len(args) == 2 and float(args[1]) > float(args[0]) / else
ScalarForm(thr) ==
    IF Len(thr) = 0 THEN "none"
    ELSE IF Len(thr) # 2 THEN "invalid"
    ELSE IF ~ArgFloatOk(thr[2]) \/ ~ArgFloatOk(thr[1]) THEN "valueerror"
    ELSE IF thr[2][1].v > thr[1][1].v THEN "pair"
    ELSE "invalid"

\* One pair of a tuple argument stops any(float(w) > float(c) ...): a token
\* float() rejects raises, a pair with warn > crit makes any() true.
TupleStops(w, c, i) == ~FloatOk(w[i]) \/ ~FloatOk(c[i]) \/ w[i].v > c[i].v

\* procs, load, diskio, network:
\*   len(args) == 0 / elif len(args) == 2: split, then reject when
\*   len(warn_arr) != len(crit_arr) or any(float(w) > float(c) for w, c in zip(..))
\* and no else branch.
TupleForm(thr) ==
    IF Len(thr) = 0 THEN "none"
    ELSE IF Len(thr) # 2 THEN "silent"
    ELSE LET w == thr[1]
             c == thr[2]
             stops == {i \in 1..Len(w) : Len(w) = Len(c) /\ TupleStops(w, c, i)}
         IN IF Len(w) # Len(c) THEN "invalid"
            ELSE IF stops = {} THEN "pair"
            ELSE IF ~FloatOk(w[MinOf(stops)]) \/ ~FloatOk(c[MinOf(stops)]) THEN "valueerror"
            ELSE "invalid"

\* What the dispatch itself answers when it does not call the probe.
Rejected(form) ==
    IF form = "invalid" THEN PluginError({})
    ELSE IF form = "valueerror" THEN Traceback(Blank)
    ELSE FallThrough

----------------------------------------------------------------------------
(* cpu                                                                     *)

CpuFile == Str_proc_stat

\* percents[i] = 100 - 100 * (total - x) / total, as a fraction
Percent(x, total) == Frac(100 * x, total)

CpuKeys == {"cpu", "user", "system", "iowait", "nice", "irq", "softirq", "steal"}

\* From the two first lines on (lines 62-103): line1 the fields of the
\* snapshot's cpu line, line2 those of /proc/stat; zip() stops at the shorter,
\* percents[i] past its end raises IndexError, total = 0 ZeroDivisionError.
\* warn, crit: tokens, or NoneTok
CpuReport(line1, line2, warn, crit) ==
    LET n == IF Len(line1) < Len(line2) THEN Len(line1) ELSE Len(line2)
        deltas == [i \in 1..n |-> line2[i] - line1[i]]
        total == SumSeq(deltas)
        base == [Blank EXCEPT !.isfile = "present", !.reads = {"/proc/stat"},
                              !.derived = TRUE]
    IN IF total = 0 \/ n < 7 THEN Traceback(base)
       ELSE LET idle == Percent(deltas[4], total)
                cpu == Frac(100 * idle.d - idle.n, idle.d)
            IN [ScalarReport(base, "cpu", cpu, warn, crit, CpuKeys)
                   EXCEPT !.saved = TRUE]

check_cpu(warn, crit) ==
    IF CpuFile \notin DOMAIN files THEN FirstRun("/proc/stat")
    ELSE CpuReport(files[CpuFile].content.cpu, stat.cpu, warn, crit)

----------------------------------------------------------------------------
(* load, threads, files: /proc/loadavg and /proc/sys/fs/file-nr            *)

LoadKeys == <<"load1", "load5", "load15">>

\* A round whose warning overwrites what earlier rounds found.
TupleStepOverwrite(status, x, warn, crit) ==
    IF FracGE(x, crit) THEN 2
    ELSE IF FracGE(x, warn) THEN 1
    ELSE status

\* One round of check_load's and check_procs' loop: the new status code.
\*   crit reached: 2; warn reached: 1 unless already higher; else unchanged
TupleStep(status, x, warn, crit) ==
    IF FracGE(x, crit) THEN 2
    ELSE IF FracGE(x, warn) THEN (IF status < 1 THEN 1 ELSE status)
    ELSE status

\* The annotation of one round: its severity, and (procs only) the name.
TupleAnn(x, warn, crit, name) ==
    IF FracGE(x, crit) THEN Ann(2, name)
    ELSE IF FracGE(x, warn) THEN Ann(1, name)
    ELSE Ann(0, "")

\* for i in range(len(warn)): if crit[i] and warn[i] are not empty, one round;
\* values[i] raises IndexError past the end of values.  named: procs puts the
\* sub-metric's name in the annotation, load does not.
RECURSIVE TupleLoop(_, _, _, _, _, _, _)
TupleLoop(r, i, values, keys, warn, crit, named) ==
    IF i > Len(warn) THEN r
    ELSE IF crit[i].k = "empty" \/ warn[i].k = "empty"
         THEN TupleLoop(r, i + 1, values, keys, warn, crit, named)
    ELSE IF i > Len(values) THEN Traceback(r)
    ELSE LET x == values[i]
             w == warn[i].v
             c == crit[i].v
         IN TupleLoop([r EXCEPT !.exit = TupleStep(r.exit, x, w, c),
                                !.evals = Append(r.evals, Eval(keys[i], x, w, c)),
                                !.ann = Append(r.ann,
                                    TupleAnn(x, w, c, IF named THEN keys[i] ELSE ""))],
                       i + 1, values, keys, warn, crit, named)

\* The perfdata items that get ;warn;crit: the first len(warn) of the keys.
TupleThrKeys(keys, warn) == {keys[i] : i \in 1..(IF Len(warn) < Len(keys) THEN Len(warn) ELSE Len(keys))}

\* warn, crit: lists of tokens, or NoneArr.  la: the three load averages.
check_load(la, warn, crit) ==
    LET base == [Blank EXCEPT !.reads = {"/proc/loadavg"}, !.out = "status",
                              !.perfdata = TRUE]
        values == [i \in 1..3 |-> Frac(la[i], 1)]
    IN IF warn # NoneArr /\ crit # NoneArr
       THEN LET r == TupleLoop([base EXCEPT !.exit = 0], 1, values, LoadKeys, warn, crit, FALSE)
            IN IF r.out = "traceback" THEN r
               ELSE [r EXCEPT !.perfthr = TupleThrKeys(LoadKeys, warn)]
       ELSE [base EXCEPT !.exit = NoThresholdStatus]

\* th: [running, total] of /proc/loadavg's fourth field.  The thresholds go
\* through int(), crit first, warn only when crit is not reached.
check_threads(th, warn, crit) ==
    LET base == [Blank EXCEPT !.reads = {"/proc/loadavg"}]
        x == Frac(th.running, 1)
    IN IF warn.k # "none" /\ crit.k # "none"
       THEN IF ~IntOk(crit) THEN Traceback(base)
            ELSE IF FracGE(x, crit.v) THEN ScalarReport(base, "running", x, warn, crit, {"running"})
            ELSE IF ~IntOk(warn) THEN Traceback(base)
            ELSE ScalarReport(base, "running", x, warn, crit, {"running"})
       ELSE ScalarReport(base, "running", x, warn, crit, {"running"})

\* fd: [open, free, total] of /proc/sys/fs/file-nr
check_openfiles(fd, warn, crit) ==
    ScalarReport([Blank EXCEPT !.reads = {"/proc/sys/fs/file-nr"}],
                 "open", Frac(fd.open, 1), warn, crit, {"open"})

----------------------------------------------------------------------------
(* procs: the fork counter of /proc/stat and the process table             *)

ProcsFile == Str_proc_stat \o Str_processes

ProcsKeys == <<"total", "running", "waiting">>

\* How many entries of the process table are in state st.  An entry "gone"
\* is a process that vanished before its stat file was read: it counts in
\* p_total and in no state.
CountState(ptable, st) == Cardinality({i \in 1..Len(ptable) : ptable[i] = st})

\* ptable: the state letter of each /proc/<pid>.  warn, crit: lists or NoneArr.
check_procs(ptable, warn, crit) ==
    IF ProcsFile \notin DOMAIN files THEN FirstRun("/proc/stat")
    ELSE LET sample_period == SamplePeriod(ProcsFile)
             forks == stat.processes - files[ProcsFile].content.processes
             base == [Blank EXCEPT !.isfile = "present", !.reads = {"/proc/stat"},
                                   !.derived = TRUE]
             values == <<Frac(Len(ptable), 1), Frac(CountState(ptable, "R"), 1),
                         Frac(CountState(ptable, "D"), 1)>>
             measured == [base EXCEPT !.reads = {"/proc/stat", "/proc/<pid>/stat"},
                                      !.out = "status", !.perfdata = TRUE]
         IN IF sample_period = 0 THEN Traceback(base)
            ELSE IF warn # NoneArr /\ crit # NoneArr
            THEN LET r == TupleLoop([measured EXCEPT !.exit = 0], 1, values, ProcsKeys,
                                    warn, crit, TRUE)
                 IN IF r.out = "traceback" THEN r
                    ELSE [r EXCEPT !.perfthr = TupleThrKeys(ProcsKeys, warn), !.saved = TRUE]
            ELSE [measured EXCEPT !.exit = NoThresholdStatus, !.saved = TRUE]

----------------------------------------------------------------------------
(* diskio: /proc/diskstats.  A line is [name, f]: the device name and the  *)
(* counters after it; f[3] is sectors read, f[7] sectors written.          *)

\* os.path.realpath on the model host: /dev/root is a symbolic link to
\* /dev/sda, every other path is its own canonical form.
Str_dev_root == <<"/", "d", "e", "v", "/", "r", "o", "o", "t">>
RealPath(path) == IF path = Str_dev_root THEN Str_dev_sda ELSE path

\* sep in line, with sep = device + ' ': the requested names hold a letter, so
\* sep can only end the name column, and it does when the name ends with it.
SepInLine(device, line) == EndsWith(line.name, device)

\* The first line of the table that holds sep; 0 when none does.
FindDiskLine(table, device) ==
    LET hits == {i \in 1..Len(table) : SepInLine(device, table[i])}
    IN IF hits = {} THEN 0 ELSE MinOf(hits)

\* os.path.join(INTERIM_DIR, 'proc_diskstats_' + device.replace("/", "_"))
DiskFile(device) == Str_proc_diskstats \o Replace(device, "/", "_")

\* The pair ladder of check_diskio and check_net:
\*   if rx >= crit[0] or tx >= crit[1]: 2 / elif rx >= warn[0] or tx >= warn[1]: 1
PairStatus(rx, tx, warn, crit) ==
    IF FracGE(rx, crit[1].v) \/ FracGE(tx, crit[2].v) THEN 2
    ELSE IF FracGE(rx, warn[1].v) \/ FracGE(tx, warn[2].v) THEN 1
    ELSE 0

\* dev: the device argument.  warn, crit: lists or NoneArr.
check_diskio(dev, warn, crit) ==
    LET isPath == StartsWith(dev, Str_slash)
        real_path == RealPath(dev)
        device == IF isPath THEN SubSeq(real_path, 6, Len(real_path)) ELSE dev
        cur == FindDiskLine(diskstats, device)
        interim_file == DiskFile(device)
    IN IF isPath /\ ~StartsWith(real_path, Str_dev_prefix) THEN PluginError({})
       ELSE IF cur = 0 THEN PluginError({"/proc/diskstats"})
       ELSE IF interim_file \notin DOMAIN files THEN FirstRun("/proc/diskstats")
       ELSE LET sample_period == SamplePeriod(interim_file)
                old == FindDiskLine(files[interim_file].content, device)
                base == [Blank EXCEPT !.isfile = "present", !.reads = {"/proc/diskstats"},
                                      !.derived = TRUE]
            IN IF old = 0 \/ sample_period = 0 THEN Traceback(base)
               ELSE LET proc_line == diskstats[cur].f
                        interim_line == files[interim_file].content[old].f
                        rs == Frac(proc_line[3] - interim_line[3], sample_period)
                        ws == Frac(proc_line[7] - interim_line[7], sample_period)
                        measured == [base EXCEPT !.out = "status", !.perfdata = TRUE]
                    IN IF warn # NoneArr /\ crit # NoneArr
                       THEN IF Len(warn) < 2 THEN Traceback(base)
                            ELSE LET st == PairStatus(rs, ws, warn, crit)
                                 IN [measured EXCEPT
                                       !.exit = st,
                                       !.evals = <<Eval("read_sectors", rs, warn[1].v, crit[1].v),
                                                   Eval("write_sectors", ws, warn[2].v, crit[2].v)>>,
                                       !.ann = <<Ann(st, "")>>,
                                       !.perfthr = {"read_sectors", "write_sectors"},
                                       !.saved = TRUE]
                       ELSE [measured EXCEPT !.exit = NoThresholdStatus, !.saved = TRUE]

----------------------------------------------------------------------------
(* disku, memory, swap                                                     *)

\* os.path.ismount on the model host: / is a mount point, /tmp is not.
IsMount(mount) == mount = Str_root

\* vfs: [blocks, bavail] of os.statvfs; used_pc = (size - avail) / size * 100
\* with size and avail the same multiple of blocks and bavail.
check_disku(mount, vfs, warn, crit) ==
    IF ~IsMount(mount) THEN PluginError({})
    ELSE IF vfs.blocks = 0 THEN Traceback([Blank EXCEPT !.reads = {"statvfs"}])
    ELSE ScalarReport([Blank EXCEPT !.reads = {"statvfs"}], "used",
                      Frac(100 * (vfs.blocks - vfs.bavail), vfs.blocks), warn, crit, {"used"})

\* mem: [total, free, cached, buffers] of /proc/meminfo
check_memory(mem, warn, crit) ==
    ScalarReport([Blank EXCEPT !.reads = {"/proc/meminfo"}], "used",
                 Frac(100 * (mem.total - mem.free - mem.cached - mem.buffers), mem.total),
                 warn, crit, {"used"})

\* A short-circuit taken only when no thresholds were given.
NoSwapUnlessThresholds(swap, warn, crit) == swap.total = 0 /\ warn.k = "none"

\* if swap['total'] == 0: the short-circuit of check_swap
NoSwap(swap, warn, crit) == swap.total = 0

\* swap: [total, free, cached] of /proc/meminfo
check_swap(swap, warn, crit) ==
    IF NoSwap(swap, warn, crit)
    THEN [Blank EXCEPT !.reads = {"/proc/meminfo"}, !.exit = 0, !.out = "no_swap"]
    ELSE ScalarReport([Blank EXCEPT !.reads = {"/proc/meminfo"}], "used",
                      Frac(100 * (swap.total - swap.free - swap.cached), swap.total),
                      warn, crit, {"used"})

----------------------------------------------------------------------------
(* network: /proc/net/dev.  A line is [name, f]: the interface name before *)
(* the colon and the sixteen counters after it, in the order r_bytes,      *)
(* r_packets, r_errs, r_drop, r_fifo, r_frame, r_compressed, r_multicast,  *)
(* t_bytes, t_packets, t_errs, t_drop, t_fifo, t_colls, t_carrier,         *)
(* t_compressed.                                                           *)

NetKeys ==
    <<"r_bytes", "r_packets", "r_errs", "r_drop", "r_fifo", "r_frame", "r_compressed",
      "r_multicast", "t_bytes", "t_packets", "t_errs", "t_drop", "t_fifo", "t_colls",
      "t_carrier", "t_compressed">>

\* The positions of r_errs, r_drop, r_fifo, r_frame, t_errs, t_drop, t_fifo,
\* t_colls, t_carrier in that order.
NetErrorFields == <<3, 4, 5, 6, 11, 12, 13, 14, 15>>

\* os.path.join(INTERIM_DIR, 'proc_net_dev_' + interface)
NetFile(interface) == Str_proc_net_dev \o interface

\* line.strip().startswith(interface + ':'): the first such line, 0 when none.
FindNetLine(table, interface) ==
    LET hits == {i \in 1..Len(table) : table[i].name = interface}
    IN IF hits = {} THEN 0 ELSE MinOf(hits)

\* The loop over the error counters: PK_ERRORS and the annotations, from
\* position i of NetErrorFields on.
RECURSIVE NetErrors(_, _, _)
NetErrors(r, int_d, i) ==
    IF i > Len(NetErrorFields) THEN r
    ELSE LET x == NetErrorFields[i]
         IN IF int_d[x] > 0
            THEN NetErrors([r EXCEPT !.errs = r.errs + int_d[x], !.exit = 2,
                                     !.ann = Append(r.ann, Ann(2, NetKeys[x]))],
                           int_d, i + 1)
            ELSE NetErrors(r, int_d, i + 1)

\* The bandwidth thresholds evaluated whether or not an error was counted.
BandwidthCheckedAlways(warn, crit, pk_errors) ==
    warn # NoneArr /\ crit # NoneArr

\* "warn is not None and crit is not None and int_d['PK_ERRORS'] == 0":
\* whether the bandwidth thresholds are evaluated.
BandwidthChecked(warn, crit, pk_errors) ==
    warn # NoneArr /\ crit # NoneArr /\ pk_errors = 0

\* interface: the interface argument.  warn, crit: lists or NoneArr.
check_net(interface, warn, crit) ==
    LET interim_file == NetFile(interface) IN
    IF interim_file \notin DOMAIN files THEN FirstRun("/proc/net/dev")
    ELSE LET sample_period == SamplePeriod(interim_file)
             cur == FindNetLine(netdev, interface)
             old == FindNetLine(files[interim_file].content, interface)
             base == [Blank EXCEPT !.isfile = "present", !.reads = {"/proc/net/dev"}]
         IN IF cur = 0 /\ old # 0 THEN Traceback(base)
            ELSE IF cur = 0 \/ old = 0 THEN [PluginError({"/proc/net/dev"}) EXCEPT !.isfile = "present"]
            ELSE IF sample_period = 0 THEN Traceback([base EXCEPT !.derived = TRUE])
            ELSE LET int_t == netdev[cur].f
                     int_d == [x \in 1..16 |-> int_t[x] - files[interim_file].content[old].f[x]]
                     rx == Frac(int_d[1], BytesPerMB * sample_period)
                     tx == Frac(int_d[9], BytesPerMB * sample_period)
                     e == NetErrors([base EXCEPT !.derived = TRUE, !.out = "status",
                                                 !.exit = 0, !.perfdata = TRUE], int_d, 1)
                 IN IF BandwidthChecked(warn, crit, e.errs)
                    THEN IF Len(warn) < 2 THEN Traceback(e)
                         ELSE LET st == PairStatus(rx, tx, warn, crit)
                              IN [e EXCEPT
                                    !.exit = IF st = 2 THEN 2
                                             ELSE IF st = 1 /\ e.exit < 1 THEN 1 ELSE e.exit,
                                    !.evals = <<Eval("RX_MBps", rx, warn[1].v, crit[1].v),
                                                Eval("TX_MBps", tx, warn[2].v, crit[2].v)>>,
                                    !.ann = Append(e.ann, Ann(st, IF st = 0 THEN "" ELSE "BW")),
                                    !.perfthr = {"RX_MBps", "TX_MBps"},
                                    !.saved = TRUE]
                    ELSE IF warn # NoneArr /\ crit # NoneArr
                    THEN IF Len(warn) < 2 THEN Traceback(e)
                         ELSE [e EXCEPT !.perfthr = {"RX_MBps", "TX_MBps"}, !.saved = TRUE]
                    ELSE [e EXCEPT !.saved = TRUE]

----------------------------------------------------------------------------
(* The inputs of an invocation: the warn/crit arguments typed on the       *)
(* command line, and what the instantaneous kernel sources show.           *)

\* Argument lists of a single-value probe with thresholds lo < hi: none,
\* accepted pairs, crit below or equal to warn, float literals, words that
\* are no numbers, an empty argument, one argument, three, and "lo,hi".
ScalarThr(lo, hi) ==
    {<<>>,
     <<<<I(lo)>>, <<I(hi)>>>>, <<<<I(hi)>>, <<I(lo)>>>>, <<<<I(lo)>>, <<I(lo)>>>>,
     <<<<D(lo)>>, <<D(hi)>>>>, <<<<I(lo)>>, <<D(hi)>>>>, <<<<D(lo)>>, <<I(hi)>>>>,
     <<<<BadTok>>, <<I(hi)>>>>, <<<<I(lo)>>, <<BadTok>>>>, <<<<I(lo)>>, <<EmptyTok>>>>,
     <<<<I(lo)>>>>, <<<<I(lo)>>, <<I(hi)>>, <<I(hi)>>>>,
     <<<<I(lo), I(hi)>>, <<I(hi)>>>>}

\* Argument lists of a tuple probe of width n: none, every pair of n-tuples
\* over 1 and 2, and the odd ones: shorter and longer tuples, tuples of
\* different lengths, an empty position, a word, float literals, one argument.
TupleThr(n) ==
    {<<>>}
    \cup {<<w, c>> : w \in [1..n -> {I(1), I(2)}], c \in [1..n -> {I(1), I(2)}]}
    \cup {<<[i \in 1..m |-> I(1)], [i \in 1..m |-> I(2)]>> : m \in {n - 1, n + 1}}
    \cup {<<[i \in 1..n |-> I(1)], [i \in 1..(n + 1) |-> I(2)]>>,
          <<[i \in 1..n |-> IF i = 2 THEN EmptyTok ELSE I(1)],
            [i \in 1..n |-> IF i = 2 THEN EmptyTok ELSE I(2)]>>,
          <<[i \in 1..n |-> IF i = 1 THEN BadTok ELSE I(1)], [i \in 1..n |-> I(2)]>>,
          <<[i \in 1..n |-> IF i = 1 THEN I(2) ELSE BadTok], [i \in 1..n |-> I(1)]>>,
          <<[i \in 1..n |-> D(1)], [i \in 1..n |-> D(2)]>>,
          <<[i \in 1..n |-> I(1)]>>}

LoadAvgs == [1..3 -> 0..2]
ThreadCounts == {[running |-> r, total |-> 3] : r \in 1..2}
FileNrs == {[open |-> o, free |-> 0, total |-> 4] : o \in 0..2}
MemInfos == {[total |-> 2, free |-> f, cached |-> 0, buffers |-> 0] : f \in 0..2}
SwapInfos == {[total |-> t, free |-> f, cached |-> 0] : t \in {0, 2}, f \in 0..2}
StatVfs == {[blocks |-> b, bavail |-> a] : b \in {0, 2}, a \in 0..2}
ProcTables ==
    {<<"S">>, <<"R", "S">>, <<"R", "R">>, <<"D", "S">>, <<"D", "D">>, <<"R", "D">>,
     <<"Z", "gone">>}

\* The check definitions a host can be configured with: the sub-command and
\* its device, mount point or interface.  "" is an invocation without any
\* argument, "bogus" an unknown sub-command.
Streams ==
    {<<c, <<>>>> : c \in {"", "bogus", "cpu", "load", "threads", "files", "procs",
                          "memory", "swap"}}
    \cup {<<"diskio", d>> : d \in {Str_sda, Str_da, Str_sdz, Str_dev_root, Str_tmp}}
    \cup {<<"disku", m>> : m \in {Str_root, Str_tmp}}
    \cup {<<"network", i>> : i \in {Str_eth0, Str_eth1, Str_eth}}

----------------------------------------------------------------------------
(* The dispatch, one branch per sub-command.  args is sys.argv[2:].        *)

main_cpu(args) ==
    LET form == ScalarForm(args)
    IN IF form = "none" THEN check_cpu(NoneTok, NoneTok)
       ELSE IF form = "pair" THEN check_cpu(args[1][1], args[2][1])
       ELSE Rejected(form)

main_procs(args, ptable) ==
    LET form == TupleForm(args)
    IN IF form = "none" THEN check_procs(ptable, NoneArr, NoneArr)
       ELSE IF form = "pair" THEN check_procs(ptable, args[1], args[2])
       ELSE Rejected(form)

main_load(args, la) ==
    LET form == TupleForm(args)
    IN IF form = "none" THEN check_load(la, NoneArr, NoneArr)
       ELSE IF form = "pair" THEN check_load(la, args[1], args[2])
       ELSE Rejected(form)

main_threads(args, th) ==
    LET form == ScalarForm(args)
    IN IF form = "none" THEN check_threads(th, NoneTok, NoneTok)
       ELSE IF form = "pair" THEN check_threads(th, args[1][1], args[2][1])
       ELSE Rejected(form)

main_files(args, fd) ==
    LET form == ScalarForm(args)
    IN IF form = "none" THEN check_openfiles(fd, NoneTok, NoneTok)
       ELSE IF form = "pair" THEN check_openfiles(fd, args[1][1], args[2][1])
       ELSE Rejected(form)

\* len(args) == 1 / elif len(args) == 3: ... ; nothing else
main_diskio(args) ==
    LET form == IF Len(args) = 0 THEN "silent" ELSE TupleForm(Tail(args))
    IN IF form = "none" THEN check_diskio(args[1], NoneArr, NoneArr)
       ELSE IF form = "pair" THEN check_diskio(args[1], args[2], args[3])
       ELSE Rejected(form)

\* len(args) == 1 / elif len(args) == 3 and float(args[2]) > float(args[1]) / else
main_disku(args, vfs) ==
    LET form == IF Len(args) = 0 THEN "invalid" ELSE ScalarForm(Tail(args))
    IN IF form = "none" THEN check_disku(args[1], vfs, NoneTok, NoneTok)
       ELSE IF form = "pair" THEN check_disku(args[1], vfs, args[2][1], args[3][1])
       ELSE Rejected(form)

main_memory(args, mem) ==
    LET form == ScalarForm(args)
    IN IF form = "none" THEN check_memory(mem, NoneTok, NoneTok)
       ELSE IF form = "pair" THEN check_memory(mem, args[1][1], args[2][1])
       ELSE Rejected(form)

main_swap(args, swap) ==
    LET form == ScalarForm(args)
    IN IF form = "none" THEN check_swap(swap, NoneTok, NoneTok)
       ELSE IF form = "pair" THEN check_swap(swap, args[1][1], args[2][1])
       ELSE Rejected(form)

main_network(args) ==
    LET form == IF Len(args) = 0 THEN "silent" ELSE TupleForm(Tail(args))
    IN IF form = "none" THEN check_net(args[1], NoneArr, NoneArr)
       ELSE IF form = "pair" THEN check_net(args[1], args[2], args[3])
       ELSE Rejected(form)

\* if len(sys.argv) > 1: ... with no else
main_no_command == FallThrough

\* else: print("Plugin Error: Unknown command ..."); sys.exit(3)
main_unknown == PluginError({})

----------------------------------------------------------------------------
(* The state machine.                                                      *)

ZeroCpu == [i \in 1..8 |-> 0]
ZeroDisk == [i \in 1..8 |-> 0]
ZeroNet == [i \in 1..16 |-> 0]

\* The invocations that can be under way at the same time (two cron jobs,
\* or a scheduled check and an operator's manual one).
Procs == {1, 2}

\* An invocation that has not started.  pc is its position in the script,
\* args its warn/crit arguments, line1 and line2 the locals of check_cpu,
\* r what it is about to print and exit with; solo records that no other
\* invocation was under way at any time since it started.
NotStarted ==
    [pc |-> "idle", args |-> <<>>, line1 |-> <<>>, line2 |-> <<>>, r |-> Blank,
     solo |-> TRUE]

Init ==
    /\ \E s \in Streams : command = s[1] /\ entity = s[2]
    /\ clock = 0
    /\ stat = [cpu |-> ZeroCpu, processes |-> 0]
    /\ diskstats = <<[name |-> Str_sda, f |-> ZeroDisk], [name |-> Str_sdb, f |-> ZeroDisk]>>
    /\ netdev = <<[name |-> Str_eth0, f |-> ZeroNet]>>
    /\ files = <<>>
    /\ last = NoRun
    /\ inflight = [p \in Procs |-> NotStarted]

\* The end of an invocation: what it did becomes last, and the snapshot file
\* is written when the run copied its source.
Finish(r, args, os, name, content) ==
    /\ last' = [r EXCEPT !.cmd = command, !.argv = args, !.os = os]
    /\ files' = IF r.saved THEN CopyFile(content, name) ELSE files
    /\ UNCHANGED <<inflight, command, entity, clock, stat, diskstats, netdev>>

\* No invocation is under way and the result of the last one was collected.
Idle == last = NoRun

\* The probe's positional argument before the warn/crit arguments.
WithEntity(thr) == <<entity>> \o thr

RunNoCommand ==
    /\ Idle
    /\ command = ""
    /\ Finish(main_no_command, <<>>, <<>>, <<>>, <<>>)

RunUnknown ==
    /\ Idle
    /\ command = "bogus"
    /\ \E thr \in {<<>>, <<<<I(1)>>, <<I(2)>>>>} :
         Finish(main_unknown, thr, <<>>, <<>>, <<>>)

RunCpu ==
    /\ Idle
    /\ command = "cpu"
    /\ \E thr \in ScalarThr(50, 100) :
         Finish(main_cpu(thr), thr, <<>>, CpuFile, stat)

RunLoad ==
    /\ Idle
    /\ command = "load"
    /\ \E thr \in TupleThr(3), la \in LoadAvgs :
         Finish(main_load(thr, la), thr, la, <<>>, <<>>)

RunThreads ==
    /\ Idle
    /\ command = "threads"
    /\ \E thr \in ScalarThr(1, 2), th \in ThreadCounts :
         Finish(main_threads(thr, th), thr, th, <<>>, <<>>)

RunFiles ==
    /\ Idle
    /\ command = "files"
    /\ \E thr \in ScalarThr(1, 2), fd \in FileNrs :
         Finish(main_files(thr, fd), thr, fd, <<>>, <<>>)

RunProcs ==
    /\ Idle
    /\ command = "procs"
    /\ \E thr \in TupleThr(3), ptable \in ProcTables :
         Finish(main_procs(thr, ptable), thr, ptable, ProcsFile, stat)

RunDiskio ==
    /\ Idle
    /\ command = "diskio"
    /\ \E args \in {<<>>} \cup {WithEntity(thr) : thr \in TupleThr(2)} :
         Finish(main_diskio(args), args, <<>>,
                DiskFile(IF StartsWith(entity, Str_slash)
                         THEN SubSeq(RealPath(entity), 6, Len(RealPath(entity)))
                         ELSE entity),
                diskstats)

RunDisku ==
    /\ Idle
    /\ command = "disku"
    /\ \E args \in {<<>>} \cup {WithEntity(thr) : thr \in ScalarThr(50, 100)}, vfs \in StatVfs :
         Finish(main_disku(args, vfs), args, vfs, <<>>, <<>>)

RunMemory ==
    /\ Idle
    /\ command = "memory"
    /\ \E thr \in ScalarThr(50, 100), mem \in MemInfos :
         Finish(main_memory(thr, mem), thr, mem, <<>>, <<>>)

RunSwap ==
    /\ Idle
    /\ command = "swap"
    /\ \E thr \in ScalarThr(50, 100), swap \in SwapInfos :
         Finish(main_swap(thr, swap), thr, swap, <<>>, <<>>)

RunNetwork ==
    /\ Idle
    /\ command = "network"
    /\ \E args \in {<<>>} \cup {WithEntity(thr) : thr \in TupleThr(2)} :
         Finish(main_network(args), args, <<>>, NetFile(entity), netdev)

\* The scheduler takes the exit code and the output of the finished run.
Collect ==
    /\ last # NoRun
    /\ last' = NoRun
    /\ UNCHANGED <<inflight, command, entity, clock, stat, diskstats, netdev, files>>

(* The world around the program.  It moves between invocations: an         *)
(* invocation is one step, and last describes it in the state it left.     *)

ClockTick ==
    /\ Idle
    /\ clock < MaxClock
    /\ clock' = clock + 1
    /\ UNCHANGED <<inflight, last, command, entity, stat, diskstats, netdev, files>>

\* The wall clock is set back (NTP step, operator).
ClockBack ==
    /\ Idle
    /\ clock > 0
    /\ clock' = clock - 1
    /\ UNCHANGED <<inflight, last, command, entity, stat, diskstats, netdev, files>>

\* The kernel accounts one tick as user, system or idle time.
CpuTick ==
    /\ Idle
    /\ command = "cpu"
    /\ SumSeq(stat.cpu) < MaxEvents
    /\ \E i \in {1, 3, 4} : stat' = [stat EXCEPT !.cpu[i] = @ + 1]
    /\ UNCHANGED <<inflight, last, command, entity, clock, diskstats, netdev, files>>

\* A process is forked.
Fork ==
    /\ Idle
    /\ command = "procs"
    /\ stat.processes < MaxEvents
    /\ stat' = [stat EXCEPT !.processes = @ + 1]
    /\ UNCHANGED <<inflight, last, command, entity, clock, diskstats, netdev, files>>

\* One sector is read from or written to sda.
DiskTransfer ==
    /\ Idle
    /\ command = "diskio"
    /\ diskstats[1].f[3] + diskstats[1].f[7] < MaxEvents
    /\ \E k \in {3, 7} : diskstats' = [diskstats EXCEPT ![1].f[k] = @ + 1]
    /\ UNCHANGED <<inflight, last, command, entity, clock, stat, netdev, files>>

\* How many events the counters of a /proc/net/dev line stand for.
NetEvents(f) == (f[1] + f[9]) \div BytesPerMB + f[3] + f[14]

\* eth0 receives or sends one megabyte.  Only eth0 carries traffic: eth1 is
\* idle, so that a counter never decreases between two readings, which is
\* what the program assumes of /proc/net/dev.
NetTraffic ==
    /\ Idle
    /\ command = "network"
    /\ entity = Str_eth0
    /\ NetEvents(netdev[1].f) < MaxEvents
    /\ \E k \in {1, 9} : netdev' = [netdev EXCEPT ![1].f[k] = @ + BytesPerMB]
    /\ UNCHANGED <<inflight, last, command, entity, clock, stat, diskstats, files>>

\* eth0 counts a receive error or a collision.
NetFault ==
    /\ Idle
    /\ command = "network"
    /\ entity = Str_eth0
    /\ NetEvents(netdev[1].f) < MaxEvents
    /\ \E k \in {3, 14} : netdev' = [netdev EXCEPT ![1].f[k] = @ + 1]
    /\ UNCHANGED <<inflight, last, command, entity, clock, stat, diskstats, files>>

\* eth1 is plugged in: its line appears in /proc/net/dev.
NetPlug ==
    /\ Idle
    /\ command = "network"
    /\ entity = Str_eth1
    /\ FindNetLine(netdev, Str_eth1) = 0
    /\ netdev' = Append(netdev, [name |-> Str_eth1, f |-> ZeroNet])
    /\ UNCHANGED <<inflight, last, command, entity, clock, stat, diskstats, files>>

\* eth1 is removed: its line disappears.
NetUnplug ==
    /\ Idle
    /\ command = "network"
    /\ FindNetLine(netdev, Str_eth1) # 0
    /\ netdev' = SubSeq(netdev, 1, FindNetLine(netdev, Str_eth1) - 1)
    /\ UNCHANGED <<inflight, last, command, entity, clock, stat, diskstats, files>>

Next ==
    \/ RunNoCommand
    \/ RunUnknown
    \/ RunCpu
    \/ RunLoad
    \/ RunThreads
    \/ RunFiles
    \/ RunProcs
    \/ RunDiskio
    \/ RunDisku
    \/ RunMemory
    \/ RunSwap
    \/ RunNetwork
    \/ Collect
    \/ ClockTick
    \/ ClockBack
    \/ CpuTick
    \/ Fork
    \/ DiskTransfer
    \/ NetTraffic
    \/ NetFault
    \/ NetPlug
    \/ NetUnplug

Spec == Init /\ [][Next]_vars

----------------------------------------------------------------------------
(* The cpu probe statement by statement, for invocations that overlap.     *)
(* Each action is one system call of check_cpu; between two of them the    *)
(* other invocation, the kernel and the clock may move.  sample_period is  *)
(* only printed, so os.path.getmtime is not a step of its own.             *)

\* What the variables other than files and inflight do in a step of a probe.
ProbeStepFixed == <<command, entity, clock, stat, diskstats, netdev, last>>

\* The snapshot file between open(dst, 'wb') and the first write of
\* shutil.copyfile: it exists and is empty.
TruncatedStat == [cpu |-> <<>>, processes |-> 0]

\* The warn/crit arguments of the overlapping invocations.
RaceThr == {<<>>, <<<<I(50)>>, <<I(100)>>>>}

\* inflight with invocation p moved to pc.
Goto(p, pc) == [inflight EXCEPT ![p].pc = pc]

\* The dispatch accepts the arguments and calls check_cpu.
Dispatch(p) ==
    /\ inflight[p].pc = "idle"
    /\ \E thr \in RaceThr :
         /\ ScalarForm(thr) \in {"none", "pair"}
         /\ inflight' = [q \in Procs |->
                IF q = p
                THEN [NotStarted EXCEPT !.pc = "isfile", !.args = thr,
                                        !.solo = \A o \in Procs \ {p} : inflight[o].pc = "idle"]
                ELSE [inflight[q] EXCEPT !.solo = (inflight[q].pc = "idle")]]
    /\ UNCHANGED <<ProbeStepFixed, files>>

\* if not os.path.isfile(interim_file)
IsFile(p) ==
    /\ inflight[p].pc = "isfile"
    /\ inflight' = Goto(p, IF CpuFile \in DOMAIN files THEN "read1" ELSE "boot_open")
    /\ UNCHANGED <<ProbeStepFixed, files>>

\* shutil.copyfile of the bootstrap opens the snapshot for writing.
BootOpen(p) ==
    /\ inflight[p].pc = "boot_open"
    /\ files' = CopyFile(TruncatedStat, CpuFile)
    /\ inflight' = Goto(p, "boot_write")
    /\ UNCHANGED ProbeStepFixed

\* ... and writes what /proc/stat holds now; then the first-run message.
BootWrite(p) ==
    /\ inflight[p].pc = "boot_write"
    /\ files' = CopyFile(stat, CpuFile)
    /\ inflight' = [inflight EXCEPT ![p].pc = "exit", ![p].r = FirstRun("/proc/stat")]
    /\ UNCHANGED ProbeStepFixed

\* line1 = f1.readline() of the snapshot
ReadInterim(p) ==
    /\ inflight[p].pc = "read1"
    /\ inflight' = [inflight EXCEPT ![p].pc = "read2",
                                    ![p].line1 = files[CpuFile].content.cpu]
    /\ UNCHANGED <<ProbeStepFixed, files>>

\* line2 = f2.readline() of /proc/stat
ReadStat(p) ==
    /\ inflight[p].pc = "read2"
    /\ inflight' = [inflight EXCEPT ![p].pc = "report", ![p].line2 = stat.cpu]
    /\ UNCHANGED <<ProbeStepFixed, files>>

\* deltas, percentages, the threshold ladder and the perfdata; an exception
\* ends the invocation before the snapshot is saved.
Report(p) ==
    /\ inflight[p].pc = "report"
    /\ LET warn == IF inflight[p].args = <<>> THEN NoneTok ELSE inflight[p].args[1][1]
           crit == IF inflight[p].args = <<>> THEN NoneTok ELSE inflight[p].args[2][1]
           r == CpuReport(inflight[p].line1, inflight[p].line2, warn, crit)
       IN inflight' = [inflight EXCEPT
                          ![p].pc = IF r.out = "traceback" THEN "exit" ELSE "save_open",
                          ![p].r = [r EXCEPT !.saved = FALSE]]
    /\ UNCHANGED <<ProbeStepFixed, files>>

\* shutil.copyfile('/proc/stat', interim_file) opens the snapshot for writing.
SaveOpen(p) ==
    /\ inflight[p].pc = "save_open"
    /\ files' = CopyFile(TruncatedStat, CpuFile)
    /\ inflight' = Goto(p, "save_write")
    /\ UNCHANGED ProbeStepFixed

\* ... and writes what /proc/stat holds now.
SaveWrite(p) ==
    /\ inflight[p].pc = "save_write"
    /\ files' = CopyFile(stat, CpuFile)
    /\ inflight' = [inflight EXCEPT ![p].pc = "exit", ![p].r.saved = TRUE]
    /\ UNCHANGED ProbeStepFixed

\* print and sys.exit, or the interpreter's traceback
Exit(p) ==
    /\ inflight[p].pc = "exit"
    /\ inflight' = [inflight EXCEPT ![p] = NotStarted]
    /\ UNCHANGED <<ProbeStepFixed, files>>

RaceInit == Init /\ command = "cpu"

RaceNext ==
    \/ \E p \in Procs : Dispatch(p)
    \/ \E p \in Procs : IsFile(p)
    \/ \E p \in Procs : BootOpen(p)
    \/ \E p \in Procs : BootWrite(p)
    \/ \E p \in Procs : ReadInterim(p)
    \/ \E p \in Procs : ReadStat(p)
    \/ \E p \in Procs : Report(p)
    \/ \E p \in Procs : SaveOpen(p)
    \/ \E p \in Procs : SaveWrite(p)
    \/ \E p \in Procs : Exit(p)
    \/ CpuTick
    \/ ClockTick

RaceSpec == RaceInit /\ [][RaceNext]_vars

----------------------------------------------------------------------------
(* A host with two block devices whose names differ in '/' against '_'     *)
(* (as cciss/c0d0 beside cciss_c0d0), each checked by its own diskio       *)
(* stream.  The invocations are whole steps, as in Spec.                   *)

Str_c_slash_0 == <<"c", "/", "0">>
Str_c_under_0 == <<"c", "_", "0">>

\* The devices of the host, which are the args[0] of its two diskio checks.
KeyDevices == {Str_c_slash_0, Str_c_under_0}

KeyInit ==
    /\ command = "diskio"
    /\ entity = Str_c_slash_0
    /\ clock = 0
    /\ stat = [cpu |-> ZeroCpu, processes |-> 0]
    /\ diskstats = <<[name |-> Str_c_slash_0, f |-> ZeroDisk],
                     [name |-> Str_c_under_0, f |-> ZeroDisk]>>
    /\ netdev = <<[name |-> Str_eth0, f |-> ZeroNet]>>
    /\ files = <<>>
    /\ last = NoRun
    /\ inflight = [p \in Procs |-> NotStarted]

\* The next invocation is the check of the other device: its sys.argv
\* names that device.
Retarget ==
    /\ Idle
    /\ \E d \in KeyDevices \ {entity} : entity' = d
    /\ UNCHANGED <<inflight, last, command, clock, stat, diskstats, netdev, files>>

KeyNext ==
    \/ RunDiskio
    \/ Collect
    \/ ClockTick
    \/ DiskTransfer
    \/ Retarget

KeySpec == KeyInit /\ [][KeyNext]_vars

----------------------------------------------------------------------------
(* Vocabulary of the properties.                                           *)

DeltaCommands == {"cpu", "procs", "diskio", "network"}
PerSecondCommands == {"procs", "diskio", "network"}
ScalarCommands == {"cpu", "threads", "files", "disku", "memory", "swap"}
TupleCommands == {"load", "procs", "diskio", "network"}
EntityCommands == {"diskio", "disku", "network"}

\* This step is one invocation of the program.
Invoked == last = NoRun /\ last' # NoRun

\* A finished invocation is described by last.
Ran == last # NoRun

\* The device name check_diskio works with for this host's device argument.
StreamDevice ==
    IF StartsWith(entity, Str_slash)
    THEN SubSeq(RealPath(entity), 6, Len(RealPath(entity)))
    ELSE entity

\* The snapshot file of this host's metric stream.
StreamFile ==
    IF command = "cpu" THEN CpuFile
    ELSE IF command = "procs" THEN ProcsFile
    ELSE IF command = "diskio" THEN DiskFile(StreamDevice)
    ELSE NetFile(entity)

\* The kernel file the stream's snapshot is a copy of.
StreamSource ==
    IF command \in {"cpu", "procs"} THEN stat
    ELSE IF command = "diskio" THEN diskstats
    ELSE netdev

\* The warn/crit part of an argument list.
Thresholds(argv) ==
    IF last.cmd \in EntityCommands /\ Len(argv) > 0 THEN Tail(argv) ELSE argv

\* Severity of a value against (warn, crit) with inclusive bounds.
Severity(e) ==
    IF e.x.n >= e.c * e.x.d THEN 2 ELSE IF e.x.n >= e.w * e.x.d THEN 1 ELSE 0

Range(f) == {f[i] : i \in DOMAIN f}

----------------------------------------------------------------------------
(* C1: a run of a delta probe (cpu, procs, diskio, network) that asks for  *)
(* its snapshot file and finds none exits with 0, leaves every existing    *)
(* file alone, creates exactly the one file of its stream as a copy of the *)
(* current kernel source stamped with the current time, and neither        *)
(* derives a rate nor compares a threshold, whatever warn and crit are.    *)
C1_Bootstrap ==
    [][(Invoked /\ command \in DeltaCommands /\ last'.isfile = "absent") =>
          /\ last'.exit = 0
          /\ last'.out = "first_run"
          /\ StreamFile \notin DOMAIN files
          /\ DOMAIN files' = DOMAIN files \cup {StreamFile}
          /\ \A n \in DOMAIN files : files'[n] = files[n]
          /\ files'[StreamFile] = [mtime |-> clock, content |-> StreamSource]
          /\ ~last'.derived
          /\ last'.evals = <<>>
          /\ last'.ann = <<>>]_vars

\* A first run of diskio given warn and crit has happened.
C1_Witness ==
    /\ Ran
    /\ last.cmd = "diskio"
    /\ last.isfile = "absent"
    /\ Len(last.argv) = 3
    /\ StreamFile \in DOMAIN files

\* The sum of the cpu tick deltas between the snapshot and now.
CpuTotalDelta == SumSeq(stat.cpu) - SumSeq(files[CpuFile].content.cpu)

(* C2: a run that finds its snapshot and then (a) cpu: a total tick delta  *)
(* of 0, or (b) procs, diskio, network: an elapsed time of zero or less,   *)
(* exits with 3 and reports no rate.                                       *)
C2_InsufficientSample ==
    [][(/\ Invoked
        /\ last'.isfile = "present"
        /\ StreamFile \in DOMAIN files
        /\ \/ command = "cpu" /\ CpuTotalDelta = 0
           \/ command \in PerSecondCommands /\ clock - files[StreamFile].mtime <= 0)
       => (last'.exit = 3 /\ last'.out # "status")]_vars

\* Some pair of the given thresholds has crit <= warn (all of them numbers).
SomePairNotAbove(thr) ==
    /\ Len(thr) = 2
    /\ Len(thr[1]) = Len(thr[2])
    /\ \A i \in 1..Len(thr[1]) : FloatOk(thr[1][i]) /\ FloatOk(thr[2][i])
    /\ \E i \in 1..Len(thr[1]) : thr[2][i].v <= thr[1][i].v
    /\ last.cmd \in ScalarCommands => Len(thr[1]) = 1

(* C3: an invocation given warn and crit in which some pair has            *)
(* crit <= warn exits with 3 and an error message, having read no kernel   *)
(* source and written no snapshot: scalar probes and, pair by pair, tuple  *)
(* probes.                                                                 *)
C3_ArgumentValidation ==
    (/\ Ran
     /\ last.cmd \in ScalarCommands \cup TupleCommands
     /\ last.cmd \in EntityCommands => Len(last.argv) > 0
     /\ SomePairNotAbove(Thresholds(last.argv)))
    => (last.exit = 3 /\ last.out = "plugin_error" /\ last.reads = {} /\ ~last.saved)

(* C4: wherever a threshold comparison was made, the bounds are inclusive: *)
(* a value equal to crit gives exit code 2; a value equal to warn and      *)
(* below crit gives at least 1, and exactly 1 unless another sub-metric of *)
(* the same run is critical; the exit code is 0 only when every compared   *)
(* value is strictly below its warn.                                       *)
C4_InclusiveBoundary ==
    (Ran /\ last.out = "status" /\ last.evals # <<>>) =>
        /\ \A e \in Range(last.evals) :
              /\ e.x.n = e.c * e.x.d => last.exit = 2
              /\ (e.x.n = e.w * e.x.d /\ e.x.n < e.c * e.x.d) =>
                    /\ last.exit >= 1
                    /\ (\A o \in Range(last.evals) : o.x.n < o.c * o.x.d) => last.exit = 1
        /\ last.exit = 0 <=> \A e \in Range(last.evals) : e.x.n < e.w * e.x.d

\* cpu usage was exactly warn, below crit, and the run ended WARNING.
C4_Witness ==
    /\ Ran
    /\ last.cmd = "cpu"
    /\ last.out = "status"
    /\ \E e \in Range(last.evals) : e.x.n = e.w * e.x.d /\ e.x.n < e.c * e.x.d
    /\ last.exit = 1

\* Between the snapshot and now some hard-error counter of the interface
\* moved.
HardErrorDelta ==
    /\ NetFile(entity) \in DOMAIN files
    /\ FindNetLine(netdev, entity) # 0
    /\ FindNetLine(files[NetFile(entity)].content, entity) # 0
    /\ \E k \in Range(NetErrorFields) :
          netdev[FindNetLine(netdev, entity)].f[k]
             # files[NetFile(entity)].content[FindNetLine(files[NetFile(entity)].content, entity)].f[k]

(* C5: a network run that reports a sample in which a hard-error counter   *)
(* moved exits with 2, makes no bandwidth comparison and carries no        *)
(* bandwidth annotation, whatever the bandwidth and the thresholds are.    *)
C5_NetworkErrorDominance ==
    [][(Invoked /\ command = "network" /\ last'.out = "status" /\ HardErrorDelta) =>
          /\ last'.exit = 2
          /\ last'.evals = <<>>
          /\ \A a \in Range(last'.ann) : a.sev = 2 /\ a.name # "BW" /\ a.name # ""]_vars

\* A network run with thresholds reported errors while the received
\* bandwidth had reached the critical threshold.
C5_Witness ==
    /\ Ran
    /\ last.cmd = "network"
    /\ last.out = "status"
    /\ last.errs > 0
    /\ Len(last.argv) = 3
    /\ last.exit = 2


\* The names the annotations of a run mention.
NamedInAnnotation == {a.name : a \in {b \in Range(last.ann) : b.name # ""}}

NoThresholds == Thresholds(last.argv) = <<>> /\ (last.cmd \in EntityCommands => last.argv # <<>>)

(* C7 as stated: a run without warn/crit that reports its measurement      *)
(* exits with 0, whatever was measured.                                    *)
C7_AbsentThresholdsAlwaysOK ==
    (Ran /\ last.out = "status" /\ NoThresholds) => last.exit = 0

(* C7, amended: a run without warn/crit that reports its measurement exits *)
(* with 0 whatever was measured, except a network run in whose sample a    *)
(* hard-error counter moved, which exits with 2.                           *)
C7_AbsentThresholds ==
    [][(Invoked /\ last'.out = "status"
           /\ Len(last'.argv) = (IF command \in EntityCommands THEN 1 ELSE 0))
       => last'.exit = (IF command = "network" /\ HardErrorDelta THEN 2 ELSE 0)]_vars

\* A network run without thresholds counted an error and exited 2.
C7_Witness ==
    /\ Ran
    /\ last.cmd = "network"
    /\ last.out = "status"
    /\ Len(last.argv) = 1
    /\ last.errs > 0
    /\ last.exit = 2

\* The requested device, interface or mount point is not in the current
\* kernel source under exactly that name.
EntityAbsent ==
    IF last.cmd = "diskio" THEN \A i \in 1..Len(diskstats) : diskstats[i].name # StreamDevice
    ELSE IF last.cmd = "network" THEN \A i \in 1..Len(netdev) : netdev[i].name # entity
    ELSE ~IsMount(entity)

\* The argument list has a form the dispatch passes on to the probe.
Accepted ==
    /\ last.argv # <<>>
    /\ IF last.cmd = "disku" THEN ScalarForm(Tail(last.argv)) \in {"none", "pair"}
       ELSE TupleForm(Tail(last.argv)) \in {"none", "pair"}

(* C8: a run of diskio, network or disku whose device, interface or mount  *)
(* point is absent from the current kernel source under exactly the        *)
(* requested name exits with 3 and a diagnostic, on the first run as on    *)
(* every other.                                                            *)
C8_EntityLookup ==
    (Ran /\ last.cmd \in EntityCommands /\ Accepted /\ EntityAbsent)
    => (last.exit = 3 /\ last.out = "plugin_error" /\ ~last.saved)

\* A token of the thresholds is not a number.
SomeNotNumber(thr) == \E a \in Range(thr) : \E t \in Range(a) : ~FloatOk(t)

\* The argument list is not a valid form for the probe: no probe name, an
\* unknown one, a wrong number of arguments, or a warn/crit that is no number.
InvalidForm ==
    \/ last.cmd \in {"", "bogus"}
    \/ last.cmd \in EntityCommands /\ last.argv = <<>>
    \/ Len(Thresholds(last.argv)) \notin {0, 2}
    \/ SomeNotNumber(Thresholds(last.argv))

(* C9: an invocation whose argument list is not a valid form for the       *)
(* probe exits with 3 and one diagnostic line, reads no kernel source and  *)
(* writes no snapshot.                                                     *)
C9_BadArguments ==
    (Ran /\ InvalidForm)
    => (last.exit = 3 /\ last.out = "plugin_error" /\ last.reads = {} /\ ~last.saved)

(* C10: a swap run that reads SwapTotal = 0 exits with 0 and the no-swap   *)
(* message, compares no threshold and prints neither performance data nor  *)
(* thresholds, whatever warn and crit were given.                          *)
C10_SwapShortCircuit ==
    (Ran /\ last.cmd = "swap" /\ "/proc/meminfo" \in last.reads /\ last.os.total = 0) =>
        /\ last.exit = 0
        /\ last.out = "no_swap"
        /\ last.evals = <<>>
        /\ last.ann = <<>>
        /\ ~last.perfdata
        /\ last.perfthr = {}

\* swap was run with warn and crit on a host without swap.
C10_Witness ==
    /\ Ran
    /\ last.cmd = "swap"
    /\ Len(last.argv) = 2
    /\ "/proc/meminfo" \in last.reads
    /\ last.os.total = 0
    /\ last.exit = 0

----------------------------------------------------------------------------
\* The positions of a warn/crit pair that are the empty string in both.
EmptyPositions(argv) ==
    {i \in 1..Len(argv[1]) : argv[1][i].k = "empty" /\ argv[2][i].k = "empty"}

\* warn and crit are three positions each; some position is empty in both and
\* every other position is a pair of numbers with crit above warn.
OptionalTuple(argv) ==
    /\ Len(argv) = 2
    /\ Len(argv[1]) = 3
    /\ Len(argv[2]) = 3
    /\ EmptyPositions(argv) # {}
    /\ \A i \in (1..3) \ EmptyPositions(argv) :
          FloatOk(argv[1][i]) /\ FloatOk(argv[2][i]) /\ argv[2][i].v > argv[1][i].v

(* C11: a load run whose warn and crit leave a position empty in both is   *)
(* accepted: it reports a status, compares exactly the other positions and *)
(* exits with the maximum severity over them.                              *)
C11_OptionalPositions ==
    (Ran /\ last.cmd = "load" /\ OptionalTuple(last.argv)) =>
        /\ last.out = "status"
        /\ Len(last.evals) = 3 - Cardinality(EmptyPositions(last.argv))
        /\ last.exit = MaxOf({Severity(e) : e \in Range(last.evals)})

----------------------------------------------------------------------------
\* Invocation p has read the snapshot's first line.
HasReadSnapshot(p) == inflight[p].pc \in {"read2", "report", "save_open", "save_write"}
                         \/ (inflight[p].pc = "exit" /\ inflight[p].r.isfile = "present")

\* A cpu line as the kernel writes it, with all its fields.
WholeLine(line) == Len(line) = Len(ZeroCpu)

(* C12: when two invocations of the cpu probe overlap, no invocation ever  *)
(* reads a snapshot that is not wholly written, and one that did ends      *)
(* with exit code 3 and a diagnostic.                                      *)
C12_ConcurrentSnapshot ==
    \A p \in Procs :
        /\ HasReadSnapshot(p) => WholeLine(inflight[p].line1)
        /\ (inflight[p].pc = "exit" /\ HasReadSnapshot(p) /\ ~WholeLine(inflight[p].line1))
              => (inflight[p].r.exit = 3 /\ inflight[p].r.out = "plugin_error")

(* C13: when a cpu run that is not a bootstrap, and that no other          *)
(* invocation overlaps, has saved its snapshot, the snapshot's cpu line is *)
(* the reading the run computed its deltas from, so that the next run      *)
(* starts from where this one ended.                                       *)
C13_SamplePairing ==
    [][\A p \in Procs :
          (inflight[p].pc = "save_write" /\ inflight'[p].pc = "exit" /\ inflight[p].solo)
          => files'[CpuFile].content.cpu = inflight[p].line2]_vars

----------------------------------------------------------------------------
\* The interface is in /proc/net/dev now but not in the stream's snapshot:
\* it appeared after the snapshot was taken.
AppearedSinceSnapshot ==
    /\ command = "network"
    /\ NetFile(entity) \in DOMAIN files
    /\ FindNetLine(netdev, entity) # 0
    /\ FindNetLine(files[NetFile(entity)].content, entity) = 0

(* C14: a network run that finds the interface in /proc/net/dev but not in *)
(* the snapshot replaces the snapshot by the current reading, so that the  *)
(* interface is in it for the next run.                                    *)
C14_NoPermanentStall ==
    [][(Invoked /\ AppearedSinceSnapshot /\ last'.argv # <<>>
           /\ TupleForm(Tail(last'.argv)) \in {"none", "pair"})
       => FindNetLine(files'[NetFile(entity)].content, entity) # 0]_vars

----------------------------------------------------------------------------
(* C15: on a host with two diskio streams, the snapshot file of the stream *)
(* an invocation is for is not the snapshot file of the other stream, and  *)
(* the invocation leaves the other stream's snapshot file as it was.       *)
C15_CollisionFreeKeys ==
    [][Invoked =>
          \A d \in KeyDevices \ {StreamDevice} :
              /\ DiskFile(d) # StreamFile
              /\ DiskFile(d) \in DOMAIN files =>
                    (DiskFile(d) \in DOMAIN files' /\ files'[DiskFile(d)] = files[DiskFile(d)])]_vars

====
